---- MODULE Spec2Model ----
(***************************************************************************)
(* Model of lib/jsdoc/funcParser.js: parse(code, lineNum) locates the      *)
(* function that starts on lineNum or one line below it (getNode) and      *)
(* simplifies it to {name, location, params, returns} (simplifyNode).      *)
(*                                                                         *)
(* The AST is a heap of nodes (ast[i]); node references are heap indices,  *)
(* 0 is JavaScript null.  The handlers of getNode mutate the heap          *)
(* (node.loc = ..., node.id = ...), so the heap is part of the state; code *)
(* is the AST as the parser produced it from the source text.              *)
(* JavaScript values that may be undefined are tagged records (Str, Num,   *)
(* Undef); a thrown value is kept as the value the code throws.            *)
(***************************************************************************)
EXTENDS Integers, Sequences, FiniteSets, TLC

VARIABLES code, ast, lineNum, order, idx, node, exported, pc, result

vars == <<code, ast, lineNum, order, idx, node, exported, pc, result>>

(***************************************************************************)
(* Bounds of the explored inputs.                                          *)
(***************************************************************************)
MaxLine == 3
MaxStmts == 2
MaxParams == 2
MaxProps == 2

(***************************************************************************)
(* JavaScript values.                                                      *)
(***************************************************************************)
Null == [t |-> "null"]
Undef == [t |-> "undefined"]
Str(s) == [t |-> "string", v |-> s]
Num(n) == [t |-> "number", v |-> n]
TypeError == [t |-> "TypeError"]
Error(msg) == [t |-> "Error", message |-> msg]

\* obj.name: undefined when the object has no such property
GetName(obj) == IF "name" \in DOMAIN obj THEN obj.name ELSE Undef

Max(a, b) == IF a >= b THEN a ELSE b

RECURSIVE Concat(_)
Concat(ss) == IF ss = <<>> THEN <<>> ELSE Head(ss) \o Concat(Tail(ss))

(***************************************************************************)
(* AST nodes as babylon produces them (only the fields the code reads,     *)
(* plus the children babel-traverse descends into).                        *)
(***************************************************************************)
Loc(l, c) == [start |-> [line |-> l, column |-> c]]

Identifier(n) == [type |-> "Identifier", name |-> Str(n)]
StringLiteral(s) == [type |-> "StringLiteral", value |-> Str(s)]
NumericLiteral(n) == [type |-> "NumericLiteral", value |-> Num(n)]
BooleanLiteral == [type |-> "BooleanLiteral", value |-> [t |-> "boolean", v |-> TRUE]]
ArrayExpression(els) == [type |-> "ArrayExpression", elements |-> els]
ObjectExpression(ps) == [type |-> "ObjectExpression", properties |-> ps]
AssignmentPattern(l, r) == [type |-> "AssignmentPattern", left |-> l, right |-> r]
RestElement(a) == [type |-> "RestElement", argument |-> a]
ObjectProperty(k, v) == [type |-> "ObjectProperty", key |-> Identifier(k), value |-> v]
ObjectPattern(ps) == [type |-> "ObjectPattern", properties |-> ps]
ArrayPattern(els) == [type |-> "ArrayPattern", elements |-> els]

MkNode(ty, loc, kids) ==
    [type |-> ty, loc |-> loc, children |-> kids, id |-> Null, params |-> <<>>,
     declaration |-> 0, declarations |-> <<>>, left |-> Null, right |-> 0]

FuncDecl(l, c, id, ps, kids) ==
    [MkNode("FunctionDeclaration", Loc(l, c), kids) EXCEPT !.id = id, !.params = ps]
FuncExpr(l, c, ps) ==
    [MkNode("FunctionExpression", Loc(l, c), <<>>) EXCEPT !.params = ps]
NumLit(l, c) == MkNode("NumericLiteral", Loc(l, c), <<>>)
VarDecl(l, c, target, init) ==
    [MkNode("VariableDeclaration", Loc(l, c), IF init = 0 THEN <<>> ELSE <<init>>)
       EXCEPT !.declarations =
                <<[type |-> "VariableDeclarator", id |-> target, init |-> init]>>]
Assign(l, c, left, right) ==
    [MkNode("AssignmentExpression", Loc(l, c), <<right>>)
       EXCEPT !.left = left, !.right = right]
Member(prop) == [type |-> "MemberExpression", property |-> prop]
Export(ty, l, c, decl) ==
    [MkNode(ty, Loc(l, c), IF decl = 0 THEN <<>> ELSE <<decl>>)
       EXCEPT !.declaration = decl]
Program(kids) == MkNode("Program", Loc(1, 0), kids)

(***************************************************************************)
(* Outcome of a JavaScript call: a returned value or a thrown value.       *)
(***************************************************************************)
Ok(v) == [ok |-> TRUE, val |-> v]
Throw(v) == [ok |-> FALSE, thrown |-> v]

(***************************************************************************)
(* Parameter Simplifier (funcParser.js 6-196).                             *)
(***************************************************************************)
DEFAULT_PARAM_NAME == Str("Unknown")

PARAM_PARSERS ==
    [Identifier |-> "parseIdentifierParam",
     AssignmentPattern |-> "parseAssignmentParam",
     RestElement |-> "parseRestParam",
     ObjectPattern |-> "parseDestructuredParam"]

parseIdentifierParam(param) == Ok(<<[name |-> GetName(param)]>>)

\* parseAssignmentParam without its final throw: an unrecognised default
\* falls through with type and defaultValue left undefined
parseAssignmentParamLenient(param) ==
    LET t == param.right.type
        name == GetName(param.left)
    IN  IF t \in {"StringLiteral", "NumericLiteral"}
          THEN Ok(<<[name |-> name, defaultValue |-> param.right.value,
                     type |-> Str(IF t = "StringLiteral" THEN "string" ELSE "number")]>>)
        ELSE IF t = "ArrayExpression"
          THEN Ok(<<[name |-> name, defaultValue |-> Str("[]"), type |-> Str("array")]>>)
        ELSE IF t = "ObjectExpression"
          THEN Ok(<<[name |-> name, defaultValue |-> Str("{}"), type |-> Str("object")]>>)
        ELSE Ok(<<[name |-> name, defaultValue |-> Undef, type |-> Undef]>>)

parseAssignmentParam(param) ==
    LET paramAssignmentType == param.right.type
        name == GetName(param.left)
    IN  IF paramAssignmentType = "StringLiteral"
          THEN Ok(<<[name |-> name, defaultValue |-> param.right.value,
                     type |-> Str("string")]>>)
        ELSE IF paramAssignmentType = "NumericLiteral"
          THEN Ok(<<[name |-> name, defaultValue |-> param.right.value,
                     type |-> Str("number")]>>)
        ELSE IF paramAssignmentType = "ArrayExpression"
          THEN Ok(<<[name |-> name, defaultValue |-> Str("[]"),
                     type |-> Str("array")]>>)
        ELSE IF paramAssignmentType = "ObjectExpression"
          THEN Ok(<<[name |-> name, defaultValue |-> Str("{}"),
                     type |-> Str("object")]>>)
        \* throw('Unknown param type: ', paramAssignmentType): the comma
        \* expression evaluates to its last operand, the kind name
        ELSE Throw(Str(paramAssignmentType))

parseRestParam(param) ==
    Ok(<<[name |-> GetName(param.argument), type |-> Str("array")]>>)

\* getParamParser falling back to the plain-name parser instead of throwing
getParamParserLenient(paramType) ==
    IF paramType \in DOMAIN PARAM_PARSERS
      THEN Ok(PARAM_PARSERS[paramType])
      ELSE Ok("parseIdentifierParam")

getParamParser(paramType) ==
    IF paramType \in DOMAIN PARAM_PARSERS
      THEN Ok(PARAM_PARSERS[paramType])
      ELSE Throw(Error(<<"Unknown param type: ", paramType>>))

\* Object.assign({}, p, { parent })
AssignParent(p, parent) ==
    [k \in DOMAIN p \cup {"parent"} |-> IF k = "parent" THEN parent ELSE p[k]]

RECURSIVE CallParser(_, _)
RECURSIVE ReduceProps(_, _, _)

\* props.reduce((params, { value }) => ..., params) from property i on
ReduceProps(props, i, params) ==
    IF i > Len(props) THEN Ok(params)
    ELSE LET value == props[i].value
             pp == getParamParser(value.type)
         IN  IF ~pp.ok THEN pp
             ELSE LET r == CallParser(pp.val, value)
                  IN  IF ~r.ok THEN r
                      ELSE LET newParams ==
                                 [j \in 1..Len(r.val) |->
                                    AssignParent(r.val[j], DEFAULT_PARAM_NAME)]
                           IN  ReduceProps(props, i + 1, params \o newParams)

parseDestructuredParam(param) ==
    LET props == param.properties
        parent == DEFAULT_PARAM_NAME
    IN  ReduceProps(props, 1, <<[name |-> parent, type |-> Str("object")]>>)

\* pp(param) for the parser the table names
CallParser(pp, param) ==
    CASE pp = "parseIdentifierParam" -> parseIdentifierParam(param)
      [] pp = "parseAssignmentParam" -> parseAssignmentParam(param)
      [] pp = "parseRestParam" -> parseRestParam(param)
      [] pp = "parseDestructuredParam" -> parseDestructuredParam(param)

RECURSIVE ReduceParams(_, _, _)
ReduceParams(params, i, col) ==
    IF i > Len(params) THEN Ok(col)
    ELSE LET pp == getParamParser(params[i].type)
         IN  IF ~pp.ok THEN pp
             ELSE LET r == CallParser(pp.val, params[i])
                  IN  IF ~r.ok THEN r
                      ELSE ReduceParams(params, i + 1, col \o r.val)

\* simplifyParams accumulating in front: pp(param).concat(col), per descriptor
simplifyParamsReversed(params) ==
    LET r == ReduceParams(params, 1, <<>>)
    IN  IF r.ok THEN Ok([j \in 1..Len(r.val) |-> r.val[Len(r.val) + 1 - j]]) ELSE r

simplifyParams(params) == ReduceParams(params, 1, <<>>)

(***************************************************************************)
(* Location Mapper and descriptor assembly (funcParser.js 207-229).        *)
(***************************************************************************)
\* simplifyLocation without the clamp to line 1
simplifyLocationUnclamped(location) ==
    [line |-> location.start.line - 1, column |-> location.start.column]

simplifyLocation(location) ==
    [line |-> Max(location.start.line - 1, 1),
     column |-> location.start.column]

\* The object literal is evaluated key by key: node.id.name first (a
\* TypeError when node.id is null), then the location, then the params.
simplifyNode(n) ==
    IF n.id = Null THEN Throw(TypeError)
    ELSE LET ps == simplifyParams(n.params)
         IN  IF ~ps.ok THEN ps
             ELSE Ok([name |-> GetName(n.id),
                      location |-> simplifyLocation(n.loc),
                      params |-> ps.val,
                      returns |-> [returns |-> FALSE]])

(***************************************************************************)
(* Inputs: the parameter lists babylon can produce for a signature.        *)
(***************************************************************************)
ParamName(i) == <<"a", "b", "c", "d", "e">>[i]
PropName(i) == <<"x", "y", "z", "w", "u">>[i]

Defaults ==
    {StringLiteral("x"), NumericLiteral(1),
     ArrayExpression(<<>>),
     ArrayExpression(<<NumericLiteral(1), NumericLiteral(2)>>),
     ObjectExpression(<<>>),
     ObjectExpression(<<ObjectProperty("k", NumericLiteral(1))>>),
     BooleanLiteral}

\* what a property of a destructured parameter can bind
PropValues(nm) ==
    {Identifier(nm),
     AssignmentPattern(Identifier(nm), NumericLiteral(1)),
     AssignmentPattern(Identifier(nm), BooleanLiteral),
     ArrayPattern(<<Identifier(nm)>>),
     ObjectPattern(<<ObjectProperty(nm, Identifier("n"))>>),
     ObjectPattern(<<ObjectProperty(nm,
         ObjectPattern(<<ObjectProperty("q", Identifier("n"))>>))>>)}

ObjectPatterns(maxProps) ==
    UNION {{ObjectPattern([i \in 1..n |-> ObjectProperty(PropName(i), vs[i])]) :
              vs \in {f \in [1..n -> UNION {PropValues(PropName(i)) : i \in 1..n}] :
                        \A i \in 1..n : f[i] \in PropValues(PropName(i))}} :
           n \in 0..maxProps}

SmallParams(nm) ==
    {Identifier(nm), ArrayPattern(<<Identifier(nm)>>),
     AssignmentPattern(ObjectPattern(<<ObjectProperty("x", Identifier("x"))>>),
                       ObjectExpression(<<>>)),
     ObjectPattern(<<>>),
     ObjectPattern(<<ObjectProperty("x", Identifier("x"))>>)}
    \cup {AssignmentPattern(Identifier(nm), d) : d \in Defaults}

\* the kinds that accompany a full destructured pattern in a signature
TinyParams(nm) ==
    {Identifier(nm), ObjectPattern(<<ObjectProperty("x", Identifier("x"))>>)}

SmallLists(n) ==
    {f \in [1..n -> UNION {SmallParams(ParamName(i)) : i \in 1..n}] :
       \A i \in 1..n : f[i] \in SmallParams(ParamName(i))}

TinyLists(n) ==
    {f \in [1..n -> UNION {TinyParams(ParamName(i)) : i \in 1..n}] :
       \A i \in 1..n : f[i] \in TinyParams(ParamName(i))}

(***************************************************************************)
(* Inputs: programs.  Form(k, b, l) is the heap segment of one top-level   *)
(* statement of shape k that starts on line l, its root stored at index b. *)
(***************************************************************************)
Pa == <<Identifier("a")>>
Pb == <<Identifier("a"), AssignmentPattern(Identifier("b"), NumericLiteral(1))>>

FormKinds ==
    {"FD", "FDNestSame", "FDNestNext", "VarFE", "VarPatFE", "VarNum", "VarNoInit",
     "AsgDot", "AsgStr", "AsgId", "AsgNum",
     "ExpFD", "ExpFDNext", "ExpDefAnon", "ExpVarFE"}

Form(k, b, l) ==
    CASE k = "FD" ->          \* function f(a) {}
           <<FuncDecl(l, 0, Identifier("f"), Pa, <<>>)>>
      [] k = "FDNestSame" ->  \* function f(a) { function g(a, b = 1) {} }
           <<FuncDecl(l, 0, Identifier("f"), Pa, <<b + 1>>),
             FuncDecl(l, 16, Identifier("g"), Pb, <<>>)>>
      [] k = "FDNestNext" ->  \* the same, g on the next line
           <<FuncDecl(l, 0, Identifier("f"), Pa, <<b + 1>>),
             FuncDecl(l + 1, 2, Identifier("g"), Pb, <<>>)>>
      [] k = "VarFE" ->       \* const v = function (a) {};
           <<VarDecl(l, 0, Identifier("v"), b + 1), FuncExpr(l, 10, Pa)>>
      [] k = "VarPatFE" ->    \* const {p} = function () {};
           <<VarDecl(l, 0, ObjectPattern(<<ObjectProperty("p", Identifier("p"))>>),
                     b + 1),
             FuncExpr(l, 12, <<>>)>>
      [] k = "VarNum" ->      \* const n = 1;
           <<VarDecl(l, 0, Identifier("n"), b + 1), NumLit(l, 10)>>
      [] k = "VarNoInit" ->   \* let u;
           <<VarDecl(l, 0, Identifier("u"), 0)>>
      [] k = "AsgDot" ->      \* o.m = function (a) {};
           <<Assign(l, 0, Member(Identifier("m")), b + 1), FuncExpr(l, 6, Pa)>>
      [] k = "AsgStr" ->      \* o['s'] = function () {};
           <<Assign(l, 0, Member(StringLiteral("s")), b + 1), FuncExpr(l, 9, <<>>)>>
      [] k = "AsgId" ->       \* h = function () {};
           <<Assign(l, 0, Identifier("h"), b + 1), FuncExpr(l, 4, <<>>)>>
      [] k = "AsgNum" ->      \* o.m = 1;
           <<Assign(l, 0, Member(Identifier("m")), b + 1), NumLit(l, 6)>>
      [] k = "ExpFD" ->       \* export function e(a) {}
           <<Export("ExportNamedDeclaration", l, 0, b + 1),
             FuncDecl(l, 7, Identifier("e"), Pa, <<>>)>>
      [] k = "ExpFDNext" ->   \* export, then function e(a) {} on the next line
           <<Export("ExportNamedDeclaration", l, 0, b + 1),
             FuncDecl(l + 1, 0, Identifier("e"), Pa, <<>>)>>
      [] k = "ExpDefAnon" ->  \* export default function (a) {}
           <<Export("ExportDefaultDeclaration", l, 0, b + 1),
             FuncDecl(l, 15, Null, Pa, <<>>)>>
      [] k = "ExpVarFE" ->    \* export const v = function (a) {};
           <<Export("ExportNamedDeclaration", l, 0, b + 1),
             VarDecl(l, 7, Identifier("v"), b + 2), FuncExpr(l, 17, Pa)>>

\* lines a statement of shape k takes beyond its first
Extent(k) == IF k \in {"FDNestNext", "ExpFDNext"} THEN 1 ELSE 0

RECURSIVE Build(_, _, _, _, _)
Build(ks, ls, i, heap, roots) ==
    IF i > Len(ks) THEN [heap EXCEPT ![1] = Program(roots)]
    ELSE Build(ks, ls, i + 1, heap \o Form(ks[i], Len(heap) + 1, ls[i]),
               Append(roots, Len(heap) + 1))

Sources(n) ==
    {c \in [ks : [1..n -> FormKinds], ls : [1..n -> 1..MaxLine]] :
       \* a statement starts below the last line of the one before it
       \A i \in 1..(n - 1) : c.ls[i] + Extent(c.ks[i]) < c.ls[i + 1]}

\* the AST of the source c
ProgramOf(c) == Build(c.ks, c.ls, 1, <<Program(<<>>)>>, <<>>)

\* one declaration, function f(ps) {}, for the Parameter Simplifier
ParamProgram(ps) == <<Program(<<2>>), FuncDecl(1, 0, Identifier("f"), ps, <<>>)>>

(***************************************************************************)
(* babel-traverse: visits the nodes depth first, a node before its         *)
(* children.                                                               *)
(***************************************************************************)
RECURSIVE Preorder(_, _)
Preorder(h, i) ==
    <<i>> \o Concat([k \in 1..Len(h[i].children) |-> Preorder(h, h[i].children[k])])

(***************************************************************************)
(* getNode (funcParser.js 37-89)                                           *)
(***************************************************************************)
onLine(n, ln) ==
    LET startLine == n.loc.start.line
    IN  startLine = ln \/ startLine - 1 = ln

Visiting == pc = "traverse" /\ idx <= Len(order)
Cur == order[idx]

Init ==
    /\ \E n \in 0..MaxStmts : \E c \in Sources(n) : ast = ProgramOf(c)
    /\ lineNum \in 1..MaxLine
    /\ code = ast
    /\ order = Preorder(ast, 1)
    /\ idx = 1
    /\ node = 0
    /\ exported = 0
    /\ pc = "traverse"
    /\ result = [kind |-> "none"]

ParamInit ==
    \* any small kinds; or one full destructured pattern among tiny ones; or
    \* small kinds and a final rest parameter
    /\ \/ \E n \in 0..MaxParams : \E l \in SmallLists(n) : ast = ParamProgram(l)
       \/ \E n \in 1..MaxParams : \E l \in TinyLists(n), i \in 1..n :
             \E o \in ObjectPatterns(MaxProps) :
                ast = ParamProgram([l EXCEPT ![i] = o])
       \/ \E n \in 0..(MaxParams - 1) : \E l \in SmallLists(n) :
             ast = ParamProgram(l \o <<RestElement(Identifier(ParamName(n + 1)))>>)
    /\ lineNum = 1
    /\ code = ast
    /\ order = Preorder(ast, 1)
    /\ idx = 1
    /\ node = 0
    /\ exported = 0
    /\ pc = "traverse"
    /\ result = [kind |-> "none"]

\* the FunctionDeclaration handler keeping the first match instead of the last
FunctionDeclarationFirstMatch ==
    /\ Visiting
    /\ ast[Cur].type = "FunctionDeclaration"
    /\ LET n == ast[Cur]
       IN  IF onLine(n, lineNum) /\ node = 0
             THEN /\ node' = Cur
                  /\ IF exported # 0 /\ ast[exported].declaration = Cur
                       THEN ast' = [ast EXCEPT ![Cur].loc = ast[exported].loc]
                       ELSE ast' = ast
             ELSE UNCHANGED <<node, ast>>
    /\ idx' = idx + 1
    /\ UNCHANGED <<code, lineNum, order, exported, pc, result>>

FunctionDeclaration ==
    /\ Visiting
    /\ ast[Cur].type = "FunctionDeclaration"
    /\ LET n == ast[Cur]
       IN  IF onLine(n, lineNum)
             THEN /\ node' = Cur
                  /\ IF exported # 0 /\ ast[exported].declaration = Cur
                       THEN ast' = [ast EXCEPT ![Cur].loc = ast[exported].loc]
                       ELSE ast' = ast
             ELSE UNCHANGED <<node, ast>>
    /\ idx' = idx + 1
    /\ UNCHANGED <<code, lineNum, order, exported, pc, result>>

VariableDeclaration ==
    /\ Visiting
    /\ ast[Cur].type = "VariableDeclaration"
    /\ LET n == ast[Cur]
           declarator == n.declarations[1]
           declaredNode == declarator.init
       IN  IF onLine(n, lineNum) /\ declarator.type = "VariableDeclarator"
             THEN IF declaredNode = 0
                    \* declaredNode.type on null
                    THEN /\ pc' = "done"
                         /\ result' = [kind |-> "throw", value |-> TypeError]
                         /\ UNCHANGED <<node, ast, idx>>
                    ELSE /\ IF ast[declaredNode].type = "FunctionExpression"
                              THEN /\ node' = declaredNode
                                   /\ ast' = [ast EXCEPT
                                        ![declaredNode].loc = n.loc,
                                        ![declaredNode].id =
                                           [name |-> GetName(declarator.id)]]
                              ELSE UNCHANGED <<node, ast>>
                         /\ idx' = idx + 1
                         /\ UNCHANGED <<pc, result>>
             ELSE /\ idx' = idx + 1
                  /\ UNCHANGED <<node, ast, pc, result>>
    /\ UNCHANGED <<code, lineNum, order, exported>>

ExportDeclaration ==
    /\ Visiting
    /\ ast[Cur].type \in {"ExportNamedDeclaration", "ExportDefaultDeclaration"}
    /\ exported' = Cur
    /\ idx' = idx + 1
    /\ UNCHANGED <<code, ast, lineNum, order, node, pc, result>>

AssignmentExpression ==
    /\ Visiting
    /\ ast[Cur].type = "AssignmentExpression"
    /\ LET n == ast[Cur]
       IN  IF /\ onLine(n, lineNum)
              /\ n.left.type = "MemberExpression"
              /\ ast[n.right].type = "FunctionExpression"
             THEN /\ node' = n.right
                  /\ ast' = [ast EXCEPT
                       ![n.right].loc = n.loc,
                       ![n.right].id = [name |-> GetName(n.left.property)]]
             ELSE UNCHANGED <<node, ast>>
    /\ idx' = idx + 1
    /\ UNCHANGED <<code, lineNum, order, exported, pc, result>>

\* a node kind the visitor has no handler for
OtherNode ==
    /\ Visiting
    /\ ast[Cur].type \notin {"FunctionDeclaration", "VariableDeclaration",
                             "ExportNamedDeclaration", "ExportDefaultDeclaration",
                             "AssignmentExpression"}
    /\ idx' = idx + 1
    /\ UNCHANGED <<code, ast, lineNum, order, node, exported, pc, result>>

(***************************************************************************)
(* parse (funcParser.js 241-249), after the traversal ended                *)
(***************************************************************************)
parse ==
    /\ pc = "traverse"
    /\ idx > Len(order)
    /\ pc' = "done"
    /\ result' = IF node = 0
                   THEN [kind |-> "return", value |-> Null]
                   ELSE LET simplified == simplifyNode(ast[node])
                        IN  IF simplified.ok
                              THEN [kind |-> "return", value |-> simplified.val]
                              ELSE [kind |-> "throw", value |-> simplified.thrown]
    /\ UNCHANGED <<code, ast, lineNum, order, idx, node, exported>>

Next ==
    \/ FunctionDeclaration
    \/ VariableDeclaration
    \/ ExportDeclaration
    \/ AssignmentExpression
    \/ OtherNode
    \/ parse

Spec == Init /\ [][Next]_vars

ParamNext ==
    \/ FunctionDeclaration
    \/ OtherNode
    \/ parse

ParamSpec == ParamInit /\ [][ParamNext]_vars

(***************************************************************************)
(* Vocabulary of the claims, over the AST as parsed (code).                *)
(***************************************************************************)
GetNodeReturned == idx > Len(order)
Returned == pc = "done" /\ result.kind = "return"
Threw == pc = "done" /\ result.kind = "throw"
ReturnedDescriptor == Returned /\ result.value # Null

\* node i has one of the three shapes the Function Locator supports
Supported(i) ==
    \/ code[i].type = "FunctionDeclaration"
    \/ /\ code[i].type = "VariableDeclaration"
       /\ code[i].declarations[1].init # 0
       /\ code[code[i].declarations[1].init].type = "FunctionExpression"
    \/ /\ code[i].type = "AssignmentExpression"
       /\ code[i].left.type = "MemberExpression"
       /\ code[code[i].right].type = "FunctionExpression"

StartsOnTarget(i) ==
    code[i].loc.start.line = lineNum \/ code[i].loc.start.line = lineNum + 1

Matches(i) == Supported(i) /\ StartsOnTarget(i)

\* the function node a supported shape stands for
FuncOf(i) ==
    CASE code[i].type = "FunctionDeclaration" -> i
      [] code[i].type = "VariableDeclaration" -> code[i].declarations[1].init
      [] code[i].type = "AssignmentExpression" -> code[i].right

\* the positions among the first n visits that match the target line
MatchingVisits(n) == {k \in 1..n : Matches(order[k])}

LastMatch(n) ==
    IF MatchingVisits(n) = {} THEN 0
    ELSE FuncOf(order[CHOOSE k \in MatchingVisits(n) :
                        \A j \in MatchingVisits(n) : j <= k])

Visited == {order[k] : k \in 1..(IF GetNodeReturned THEN Len(order) ELSE idx)}

(***************************************************************************)
(* C1: getNode returns a non-null node only if some visited node of a      *)
(* supported shape starts on line L or L+1, and returns null when no       *)
(* visited node of a supported shape starts on L or L+1.                   *)
(***************************************************************************)
C1_LocatorMatchesOnlySupported ==
    pc = "done" =>
       IF \E i \in Visited : Matches(i)
         THEN TRUE
         ELSE GetNodeReturned /\ node = 0

(***************************************************************************)
(* C2: whenever parse returns a descriptor, location.line =                *)
(* max(s.line - 1, 1) and location.column = s.column, s the start of the   *)
(* reported location of the matched function; so location.line >= 1.       *)
(***************************************************************************)
C2_LocationMapped ==
    ReturnedDescriptor =>
       LET s == ast[node].loc.start
           location == result.value.location
       IN  /\ location.line = (IF s.line - 1 >= 1 THEN s.line - 1 ELSE 1)
           /\ location.column = s.column
           /\ location.line >= 1

\* a descriptor for a function reported on line 1, away from column 0
C2_Witness ==
    /\ ReturnedDescriptor
    /\ ast[node].loc.start.line = 1
    /\ ast[node].loc.start.column > 0

(***************************************************************************)
(* C3: after every visit of the pre-order traversal, the current match is  *)
(* the function of the last visit so far that matched the target line: a   *)
(* later match overwrites an earlier one, a visit that does not match      *)
(* leaves the current match alone, and getNode returns the last match.     *)
(***************************************************************************)
C3_LastMatchWins == node = LastMatch(idx - 1)

\* getNode returned after two visits matched, for two different functions
C3_Witness ==
    /\ Returned
    /\ \E j, k \in MatchingVisits(Len(order)) :
          j < k /\ FuncOf(order[j]) # FuncOf(order[k]) /\ node = FuncOf(order[k])

ExportTypes == {"ExportNamedDeclaration", "ExportDefaultDeclaration"}

(***************************************************************************)
(* C4: when a visit matches a declaration, then for every export statement *)
(* visited before it whose direct payload is that declaration the          *)
(* function's reported location is the export statement's own location;    *)
(* and if the declaration is not the payload of the most recently recorded *)
(* export, its location is not replaced by any export's location.          *)
(***************************************************************************)
C4_ExportLocationAdopted ==
    [][(/\ pc = "traverse"
        /\ node' # node
        /\ code[Cur].type \in {"FunctionDeclaration", "VariableDeclaration"})
       => /\ \A k \in 1..(idx - 1) :
               (/\ code[order[k]].type \in ExportTypes
                /\ code[order[k]].declaration = Cur)
               => ast'[node'].loc = code[order[k]].loc
          /\ (exported = 0 \/ code[exported].declaration # Cur)
               => \A e \in DOMAIN code :
                     code[e].type \in ExportTypes => ast'[node'].loc # code[e].loc
      ]_vars

(***************************************************************************)
(* C5: when no function definition starts on the target line or one line   *)
(* below it, parse returns null and never raises, whatever other           *)
(* statements start on those lines.                                        *)
(***************************************************************************)
NoFunctionOnTarget ==
    \A i \in DOMAIN code :
       code[i].type \in {"FunctionDeclaration", "FunctionExpression"}
          => ~StartsOnTarget(i)

C5_NullWhenNoFunction ==
    (pc = "done" /\ NoFunctionOnTarget) => (Returned /\ result.value = Null)

(***************************************************************************)
(* C6: parse raises only on parser failure or UnknownParamType.  Once the  *)
(* locator has returned (its own failure is the case of C5) and the        *)
(* located function has only supported parameters and defaults, as every   *)
(* function of these programs has, parse returns a descriptor or null.     *)
(***************************************************************************)
C6_RaisesOnlyUnknownParamType ==
    (pc = "done" /\ GetNodeReturned) => Returned

(***************************************************************************)
(* C10: every descriptor returned by parse has a name that is a defined    *)
(* string, for every form of declarator target and of member access.       *)
(***************************************************************************)
C10_NameIsString ==
    ReturnedDescriptor => result.value.name.t = "string"

(***************************************************************************)
(* Vocabulary of the Parameter Simplifier's claims, over the raw           *)
(* parameters of the declaration function f(...) {} at heap index 2.       *)
(***************************************************************************)
RawParams == code[2].params
Out == result.value.params

FourVariants == {"Identifier", "AssignmentPattern", "RestElement", "ObjectPattern"}
SupportedDefaults ==
    {"StringLiteral", "NumericLiteral", "ArrayExpression", "ObjectExpression"}

RECURSIVE Sum(_)
Sum(ns) == IF ns = <<>> THEN 0 ELSE Head(ns) + Sum(Tail(ns))

\* the number of descriptors a parameter expands to
RECURSIVE Size(_)
Size(p) ==
    IF p.type = "ObjectPattern"
      THEN 1 + Sum([j \in 1..Len(p.properties) |-> Size(p.properties[j].value)])
      ELSE 1

\* the names of those descriptors, parent first, properties in property order
RECURSIVE Names(_)
Names(p) ==
    CASE p.type = "ObjectPattern" ->
           <<DEFAULT_PARAM_NAME>>
             \o Concat([j \in 1..Len(p.properties) |-> Names(p.properties[j].value)])
      [] p.type = "AssignmentPattern" -> <<GetName(p.left)>>
      [] p.type = "RestElement" -> <<GetName(p.argument)>>
      [] OTHER -> <<GetName(p)>>

\* a default expression of an unsupported kind, here or in a property
RECURSIVE HasBadDefault(_)
HasBadDefault(p) ==
    \/ p.type = "AssignmentPattern" /\ p.right.type \notin SupportedDefaults
    \/ /\ p.type = "ObjectPattern"
       /\ \E j \in 1..Len(p.properties) : HasBadDefault(p.properties[j].value)

\* the parameter cannot be simplified: a kind outside the four variants or
\* an unsupported default, here or in a property at any depth
RECURSIVE Fails(_)
Fails(p) ==
    \/ p.type \notin FourVariants
    \/ p.type = "AssignmentPattern" /\ p.right.type \notin SupportedDefaults
    \/ /\ p.type = "ObjectPattern"
       /\ \E j \in 1..Len(p.properties) : Fails(p.properties[j].value)

\* where the expansion of parameter i starts in the output, less one
Offset(i) == Sum([k \in 1..(i - 1) |-> Size(RawParams[k])])

\* the thrown value names the kind k
CarriesKind(v, k) ==
    \/ v.t = "string" /\ v.v = k
    \/ v.t = "Error" /\ v.message[Len(v.message)] = k

(***************************************************************************)
(* C7: a name-with-default parameter's descriptor is determined by the     *)
(* syntactic kind of the default expression alone: string and numeric      *)
(* literals keep their value, an array literal gives "array" and "[]", an  *)
(* object literal gives "object" and "{}", whatever their contents; every  *)
(* other kind makes the whole parse fail, the thrown value carrying the    *)
(* kind name, and no descriptor is returned.                               *)
(***************************************************************************)
C7_DefaultByKind ==
    pc = "done" =>
       \A i \in 1..Len(RawParams) :
          LET p == RawParams[i]
              k == p.right.type
          IN  /\ HasBadDefault(p) => Threw
              /\ p.type = "AssignmentPattern" =>
                   IF k \in SupportedDefaults
                     THEN ReturnedDescriptor =>
                            LET d == Out[Offset(i) + 1]
                            IN  /\ DOMAIN d = {"name", "type", "defaultValue"}
                                /\ d.type =
                                     (CASE k = "StringLiteral" -> Str("string")
                                        [] k = "NumericLiteral" -> Str("number")
                                        [] k = "ArrayExpression" -> Str("array")
                                        [] k = "ObjectExpression" -> Str("object"))
                                /\ d.defaultValue =
                                     (CASE k = "ArrayExpression" -> Str("[]")
                                        [] k = "ObjectExpression" -> Str("{}")
                                        [] OTHER -> p.right.value)
                     ELSE (\A j \in 1..(i - 1) : ~Fails(RawParams[j]))
                             => Threw /\ CarriesKind(result.value, k)

\* a descriptor whose second or later entry comes from a non-empty array default
C7_Witness ==
    /\ ReturnedDescriptor
    /\ \E i \in 2..Len(RawParams) :
          /\ RawParams[i].type = "AssignmentPattern"
          /\ RawParams[i].right.type = "ArrayExpression"
          /\ RawParams[i].right.elements # <<>>
          /\ Out[Offset(i) + 1].defaultValue = Str("[]")

(***************************************************************************)
(* C8: the params of a returned descriptor are the concatenation, in       *)
(* declaration order, of each raw parameter's expansion: one descriptor    *)
(* for a plain, defaulted or rest parameter; for a destructured object     *)
(* parameter the parent {name:"Unknown", type:"object"} and then the       *)
(* descriptors of its properties in property order, each with parent =     *)
(* "Unknown"; no other descriptor carries a parent.                        *)
(***************************************************************************)
C8_ParamsInOrder ==
    ReturnedDescriptor =>
       /\ Len(Out) = Offset(Len(RawParams) + 1)
       /\ \A i \in 1..Len(RawParams) :
             LET p == RawParams[i]
                 o == Offset(i)
             IN  /\ "parent" \notin DOMAIN Out[o + 1]
                 /\ Out[o + 1].name = Names(p)[1]
                 /\ p.type = "ObjectPattern" =>
                      /\ Out[o + 1] = [name |-> Str("Unknown"), type |-> Str("object")]
                      /\ \A j \in 2..Size(p) :
                            /\ "parent" \in DOMAIN Out[o + j]
                            /\ Out[o + j].parent = Str("Unknown")
                            /\ Out[o + j].name = Names(p)[j]
                 /\ p.type # "ObjectPattern" => Size(p) = 1

\* a destructured parameter with two properties, between two other parameters
C8_Witness ==
    /\ ReturnedDescriptor
    /\ Len(RawParams) >= 2
    /\ \E i \in 1..Len(RawParams) :
          /\ RawParams[i].type = "ObjectPattern"
          /\ Len(RawParams[i].properties) >= 2
          /\ \E k \in 1..Len(RawParams) : k # i /\ RawParams[k].type = "Identifier"

(***************************************************************************)
(* C9 as stated: a property of a destructured parameter that is itself an  *)
(* object pattern makes the parse fail and no descriptor is returned; and  *)
(* a top-level parameter kind outside the four variants fails.             *)
(***************************************************************************)
HasNestedPattern(p) ==
    /\ p.type = "ObjectPattern"
    /\ \E j \in 1..Len(p.properties) : p.properties[j].value.type = "ObjectPattern"

C9_NestedDestructuringFails ==
    pc = "done" =>
       \A i \in 1..Len(RawParams) :
          (HasNestedPattern(RawParams[i]) \/ RawParams[i].type \notin FourVariants)
             => Threw

(***************************************************************************)
(* C9 amended: a property that is itself an object pattern is expanded by  *)
(* the same four-variant dispatch, into a parent entry {name:"Unknown",    *)
(* type:"object", parent:"Unknown"} and its properties' descriptors, and   *)
(* parse returns a descriptor unless a parameter fails for another reason; *)
(* the parse fails exactly when some parameter, at top level or as a       *)
(* property at any depth, has a kind outside the four variants or an       *)
(* unsupported default, and a kind outside the four variants is reported   *)
(* as Error("Unknown param type: <kind>").                                 *)
(***************************************************************************)
C9_NestedDestructuringExpanded ==
    pc = "done" =>
       LET anyFails == \E i \in 1..Len(RawParams) : Fails(RawParams[i])
       IN  /\ Threw <=> anyFails
           /\ ReturnedDescriptor <=> ~anyFails
           /\ \A i \in 1..Len(RawParams) :
                LET p == RawParams[i]
                    firstFailure == \A k \in 1..(i - 1) : ~Fails(RawParams[k])
                IN  /\ (p.type \notin FourVariants /\ firstFailure)
                         => result.value = Error(<<"Unknown param type: ", p.type>>)
                    /\ (p.type = "ObjectPattern" /\ firstFailure)
                         => \A j \in 1..Len(p.properties) :
                               LET v == p.properties[j].value
                                   before == Sum([m \in 1..(j - 1) |->
                                                    Size(p.properties[m].value)])
                               IN  (\A m \in 1..(j - 1) : ~Fails(p.properties[m].value))
                                   => /\ v.type \notin FourVariants
                                           => result.value =
                                                Error(<<"Unknown param type: ", v.type>>)
                                      /\ (v.type = "ObjectPattern" /\ ~anyFails)
                                           => Out[Offset(i) + 1 + before + 1] =
                                                [name |-> Str("Unknown"),
                                                 type |-> Str("object"),
                                                 parent |-> Str("Unknown")]

\* a descriptor for a signature whose destructured parameter nests a pattern
\* two levels deep
C9_Witness ==
    /\ ReturnedDescriptor
    /\ \E i \in 1..Len(RawParams) :
          /\ RawParams[i].type = "ObjectPattern"
          /\ \E j \in 1..Len(RawParams[i].properties) :
                HasNestedPattern(RawParams[i].properties[j].value)

====
